---- MODULE Spec2Model ----
(***************************************************************************)
(* Training-loop event handlers of gluonnlp.estimator                      *)
(* (machine_translation_event_handler.py, machine_translation_estimator.py)*)
(* as a state machine over the lifecycle events                            *)
(*   train_begin -> {epoch_begin -> {batch_begin -> batch_end}* ->         *)
(*                   epoch_end}* -> train_end                              *)
(* dispatched by the estimator's fit loop.                                 *)
(*                                                                         *)
(* Representation of numbers.  Token counts, step counters and batch       *)
(* indices are integers.  Parameter values, averaged parameters and the    *)
(* scale passed to trainer.step are exact rationals <<n, d>> in lowest     *)
(* terms with d > 0 (Rat).  The learning rate is a positive real that      *)
(* involves square roots; it is held by its square, an exact rational      *)
(* (x |-> x^2 is strictly increasing on positive reals, so comparisons,    *)
(* min and products carry over exactly).  Floating-point rounding is not   *)
(* modelled.                                                               *)
(***************************************************************************)
EXTENDS Integers, Sequences, FiniteSets, TLC

\* ------------------------------------------------------------------ bounds
\* SpecAccum: epochs of a run, batches of an epoch, valid tokens of a batch,
\* grad_interval, warmup_steps
MaxEpochs == 2
MaxBatches == 4
MaxTokens == 2
MaxInterval == 3
MaxWarmup == 2
\* SpecAvg: epochs, batches of an epoch, grad_interval, avg_start
AvgEpochs == 2
AvgBatches == 3
MaxAvgInterval == 2
MaxAvgStart == 2
\* SpecCkpt: epochs, batches of an epoch, largest bleu score
CkptEpochs == 2
CkptBatches == 1
MaxScore == 2
\* SpecGNMT: epochs, batches of an epoch, largest gradient entry
MaxGnmtEpochs == 4
GnmtBatches == 2
MaxGrad == 2
\* SpecBleu: epochs, instances of the data set
BleuEpochs == 2
MaxInst == 2
\* SpecStray: epochs, batches of an epoch
StrayEpochs == 2
StrayBatches == 2
\* SpecPace: batches of an epoch
PaceBatches == 3
\* SpecLM: devices, calls of fit_batch and of evaluate_batch, rows and columns
\* of a batch
MaxDevices == 2
MaxCalls == 3
MaxRows == 3
MaxCols == 2

\* ------------------------------------------------- constructor defaults
BatchSizeDefault == 1024
RescaleLossDefault == 100
NumUnitsDefault == 512

\* An integer attribute that has not been assigned yet (Python: AttributeError on
\* read); assigned counters are never negative.
Absent == 0 - 1
\* The value None of a slot that otherwise holds a parameter map, and a file that
\* does not exist (a parameter map always has the model's parameter names as keys).
None == << >>
NoFile == << >>
\* No exception was raised.
NoError == "none"
\* No event was delivered out of order.
NoEvent == "none"

ParamNames == {"enc", "dec"}

\* -------------------------------------------------------------- rationals
Abs(x) == IF x < 0 THEN 0 - x ELSE x

RECURSIVE GCD(_, _)
GCD(a, b) == IF b = 0 THEN a ELSE GCD(b, a % b)

\* n / d in lowest terms, d # 0
Rat(n, d) ==
    LET g == GCD(Abs(n), Abs(d))
        s == IF d < 0 THEN 0 - 1 ELSE 1
    IN  << (s * n) \div g, (s * d) \div g >>

RatMul(a, b) == Rat(a[1] * b[1], a[2] * b[2])
\* sums over the least common denominator (keeps the integers small)
RatAdd(a, b) ==
    LET g == GCD(a[2], b[2])
    IN  Rat(a[1] * (b[2] \div g) + b[1] * (a[2] \div g), (a[2] \div g) * b[2])
RatSub(a, b) == RatAdd(a, << 0 - b[1], b[2] >>)
RatLeq(a, b) == a[1] * b[2] <= b[1] * a[2]
RatLess(a, b) == a[1] * b[2] < b[1] * a[2]
\* Python's min(a, b): a unless b is smaller
RatMin(a, b) == IF RatLess(b, a) THEN b ELSE a

RECURSIVE SumSeq(_)
SumSeq(s) == IF s = << >> THEN 0 ELSE Head(s) + SumSeq(Tail(s))

\* ------------------------------------------------------------------ state
VARIABLES
    cfg,               \* constructor arguments of the handlers, the attached handlers, input sets
    phase,             \* position of the estimator's fit loop
    epoch,             \* epochs completed by the fit loop
    nbatch,            \* batches completed in the current epoch
    error,             \* NoError, or the exception that aborted the run
    tgt_valid_length,  \* estimator.tgt_valid_length
    avg_param,         \* estimator.avg_param
    bleu_score,        \* estimator.bleu_score
    params,            \* estimator.net parameters (live values)
    grad,              \* gradient buffers of the parameters (integer direction)
    grad_scale,        \* factor applied to grad by clipping (held by its square)
    grad_req,          \* gradient mode of the parameters: "write" or "add"
    learning_rate,     \* estimator.trainer.learning_rate (held by its square)
    lrh,               \* TransformerLearningRateHandler fields
    gah,               \* TransformerGradientAccumulationHandler fields
    puh,               \* MTTransformerParamUpdateHandler fields
    glr,               \* MTGNMTLearningRateHandler fields
    ckpt,              \* MTCheckpointHandler fields
    files,             \* files under model_dir
    calls,             \* history: calls made on the trainer and gradients by the last event
    tokens_log,        \* history: token counts of the batches of the current epoch
    steps_log,         \* history: trainer.step calls of the current epoch
    nsteps,            \* history: number of trainer.step calls of the run
    sample_log,        \* history: live parameters at the averaging update of each step
    score_log,         \* history: bleu score and live parameters at each epoch end
    cbh,               \* ComputeBleuHandler fields (all_inst_ids, translation_out)
    mh,                \* MTTransformerMetricHandler fields
    hiddens,           \* estimator.hiddens (language model estimator)
    eval_hiddens,      \* estimator.eval_hiddens (language model estimator)
    decoded,           \* history: instance ids and translations decoded in the current epoch
    hyp_log,           \* history: the hypothesis lists passed to compute_bleu_fn
    bleu_ret,          \* history: the score compute_bleu_fn returned last
    lm_log,            \* history: the last call of the language model batch processor
    fit_only,          \* history: estimator.hiddens as the fit_batch calls alone make it
    eval_only,         \* history: estimator.eval_hiddens as the evaluate_batch calls
                       \* alone make it
    stray,             \* history: the first event delivered out of lifecycle order
    pending,           \* history: the batches whose backward ran since the gradients
                       \* were last zeroed (kept when the accumulation handler is attached)
    batches_log        \* history: the batch counts of the completed epochs (kept when
                       \* the transformer learning-rate handler is the only handler)

vars == << cfg, phase, epoch, nbatch, error, tgt_valid_length, avg_param, bleu_score,
           params, grad, grad_scale, grad_req, learning_rate, lrh, gah, puh, glr, ckpt,
           files, calls, tokens_log, steps_log, nsteps, sample_log, score_log,
           cbh, mh, hiddens, eval_hiddens, decoded, hyp_log, bleu_ret, lm_log, fit_only,
           eval_only, stray,
           pending, batches_log >>

\* The state of the BLEU handlers and of the language model batch processor.
bleu_vars == << cbh, decoded, hyp_log, bleu_ret >>
lm_vars == << hiddens, eval_hiddens, lm_log, fit_only, eval_only >>

\* What a lifecycle event can change when no handler raises, apart from the
\* position of the loop.
handler_vars == << cfg, epoch, nbatch, tgt_valid_length, avg_param, bleu_score, params,
                   grad, grad_scale, grad_req, learning_rate, lrh, gah, puh, glr, ckpt,
                   files, calls, tokens_log, steps_log, nsteps, sample_log, score_log,
                   bleu_vars, mh, pending, batches_log >>

ZeroGrad == [k \in ParamNames |-> 0]
One == << 1, 1 >>

\* The live parameter maps an optimizer step can produce, one for each v in vals
\* (a sample of the possible maps: "dec" is kept one above "enc", so that the
\* entries of a map differ).
ParamMaps(vals) ==
    {[k \in ParamNames |-> << IF k = "enc" THEN v ELSE v + 1, 1 >>] : v \in vals}

\* --------------------------------------------------------------- trainer
\* estimator.trainer.step(scale): the optimizer rewrites the live parameters from
\* the gradients; the new values are not determined by this repository.
TrainerStep(scale, by) ==
    /\ \E newp \in ParamMaps(cfg.param_vals) : params' = newp
    /\ steps_log' = Append(steps_log,
                           [at |-> nbatch, by |-> by, scale |-> scale,
                            grad |-> grad, grad_scale |-> grad_scale])
    /\ nsteps' = nsteps + 1

\* --------------------------------- TransformerGradientAccumulationHandler
\* (mutation of StepDue: the step taken on the first batch of an interval)
StepDueFirst(batch_id, grad_interval) == batch_id % grad_interval = 0

\* batch_end: self.batch_id % self.grad_interval == self.grad_interval - 1
StepDue(batch_id, grad_interval) == batch_id % grad_interval = grad_interval - 1

\* float(self.loss_denom) / self.batch_size / self.rescale_loss
StepScale(loss_denom, batch_size, rescale_loss) ==
    RatMul(RatMul(Rat(loss_denom, 1), Rat(1, batch_size)), Rat(1, rescale_loss))

\* (mutation of GA_update_gradient: the gradients are not zeroed after the step)
GA_update_gradient_keep_grad(loss_denom, by) ==
    /\ TrainerStep(StepScale(loss_denom, cfg.batch_size, cfg.rescale_loss), by)
    /\ UNCHANGED grad
    /\ calls' = << "step" >>

\* _update_gradient, called with the denominator accumulated so far
GA_update_gradient(loss_denom, by) ==
    /\ TrainerStep(StepScale(loss_denom, cfg.batch_size, cfg.rescale_loss), by)
    /\ grad' = ZeroGrad
    /\ calls' = << "step", "zero_grad" >>

\* (mutation of GA_train_begin: the gradient mode is left at overwrite)
GA_train_begin_write ==
    /\ grad_req' = "write"
    /\ grad' = ZeroGrad

GA_train_begin ==
    /\ grad_req' = "add"
    /\ grad' = ZeroGrad

\* (mutation of GA_epoch_begin: loss_denom is not assigned)
GA_epoch_begin_no_denom == gah' = [gah EXCEPT !.batch_id = 0]

GA_epoch_begin == gah' = [batch_id |-> 0, loss_denom |-> 0]

\* batch_end reads loss_denom and batch_id, epoch_end reads loss_denom
GA_raises == gah.loss_denom = Absent \/ gah.batch_id = Absent

GA_batch_end ==
    LET denom == gah.loss_denom + tgt_valid_length IN
    IF StepDue(gah.batch_id, cfg.grad_interval)
    THEN /\ GA_update_gradient(denom, "batch_end")
         /\ gah' = [batch_id |-> gah.batch_id + 1, loss_denom |-> 0]
    ELSE /\ gah' = [batch_id |-> gah.batch_id + 1, loss_denom |-> denom]
         /\ calls' = << >>
         /\ UNCHANGED << params, grad, steps_log, nsteps >>

\* (mutation of GA_epoch_end: no flush of the remaining denominator)
GA_epoch_end_no_flush ==
    /\ calls' = << >>
    /\ UNCHANGED << gah, params, grad, steps_log, nsteps >>

GA_epoch_end ==
    IF gah.loss_denom > 0
    THEN /\ GA_update_gradient(gah.loss_denom, "epoch_end")
         /\ gah' = [gah EXCEPT !.loss_denom = 0]
    ELSE /\ calls' = << >>
         /\ UNCHANGED << gah, params, grad, steps_log, nsteps >>

\* ----------------------------------------- TransformerLearningRateHandler
\* (mutation of TransformerLR: the decay branch alone, no warm-up)
TransformerLRNoWarmup(lr, num_units, warmup_steps, step_num) ==
    RatMul(Rat(lr * lr, num_units), Rat(1, step_num))

\* self.lr / sqrt(self.num_units) * min(1 / sqrt(step_num), step_num * warmup_steps ** (-1.5)),
\* squared: lr^2 / num_units * min(1 / step_num, step_num^2 / warmup_steps^3)
TransformerLR(lr, num_units, warmup_steps, step_num) ==
    RatMul(Rat(lr * lr, num_units),
           RatMin(Rat(1, step_num),
                  Rat(step_num * step_num, warmup_steps * warmup_steps * warmup_steps)))

\* (mutation of LRDue: the rate recomputed on the last batch of an interval)
LRDueLast(batch_id, grad_interval) == batch_id % grad_interval = grad_interval - 1

\* batch_begin: self.batch_id % self.grad_interval == 0
LRDue(batch_id, grad_interval) == batch_id % grad_interval = 0

\* (mutation of LR_epoch_begin: the step counter is reset with the batch index)
LR_epoch_begin_reset_steps == lrh' = [batch_id |-> 0, step_num |-> 0]

LR_epoch_begin == lrh' = [lrh EXCEPT !.batch_id = 0]

LR_raises == lrh.batch_id = Absent

LR_batch_begin ==
    IF LRDue(lrh.batch_id, cfg.grad_interval)
    THEN /\ lrh' = [batch_id |-> lrh.batch_id + 1, step_num |-> lrh.step_num + 1]
         /\ learning_rate' = TransformerLR(cfg.lr, cfg.num_units, cfg.warmup_steps,
                                           lrh.step_num + 1)
    ELSE /\ lrh' = [lrh EXCEPT !.batch_id = lrh.batch_id + 1]
         /\ UNCHANGED learning_rate

\* --------------------------------------------- MTTransformerMetricHandler
\* (the metrics themselves are not part of the state)
MH_epoch_begin == mh' = [batch_id |-> 0]

\* batch_begin reads batch_id (self.batch_id += 1, whatever grad_interval is)
MH_raises == mh.batch_id = Absent

MH_batch_begin == mh' = [batch_id |-> mh.batch_id + 1]

\* ---------------------------------------- MTTransformerParamUpdateHandler
Max(a, b) == IF a >= b THEN a ELSE b

\* alpha = 1. / max(1, self.step_num - self.avg_start)
AvgAlpha(step_num, avg_start) == Rat(1, Max(1, step_num - avg_start))

\* for key, val in avg_param.items(): val[:] += alpha * (params[key] - val)
AvgUpdate(avg, p, alpha) ==
    [k \in DOMAIN avg |-> RatAdd(avg[k], RatMul(alpha, RatSub(p[k], avg[k])))]

\* (mutation of UpdatedAvgParam: the map is not created before step avg_start)
UpdatedAvgParamAtStart(avg, p, step_num) ==
    IF step_num < cfg.avg_start THEN avg
    ELSE LET snap == IF avg = None THEN [k \in ParamNames |-> p[k]] ELSE avg
         IN  IF step_num > cfg.avg_start
             THEN AvgUpdate(snap, p, AvgAlpha(step_num, cfg.avg_start))
             ELSE snap

\* (mutation of UpdatedAvgParam: the values already follow the live parameters
\* at step avg_start)
UpdatedAvgParamFromStart(avg, p, step_num) ==
    LET snap == IF avg = None THEN [k \in ParamNames |-> p[k]] ELSE avg
    IN  IF step_num >= cfg.avg_start
        THEN AvgUpdate(snap, p, AvgAlpha(step_num, cfg.avg_start))
        ELSE snap

\* The value of estimator.avg_param after _update_avg_param, run with the live
\* parameters p when the handler's step counter is step_num.
UpdatedAvgParam(avg, p, step_num) ==
    LET snap == IF avg = None THEN [k \in ParamNames |-> p[k]] ELSE avg
    IN  IF step_num > cfg.avg_start
        THEN AvgUpdate(snap, p, AvgAlpha(step_num, cfg.avg_start))
        ELSE snap

\* history: the live parameters seen by the averaging update of step step_num
Sampled(log, p, step_num) ==
    IF step_num = 0 THEN log
    ELSE IF Len(log) < step_num THEN Append(log, p)
    ELSE [log EXCEPT ![step_num] = p]

PU_update_avg_param(p, step_num) ==
    /\ avg_param' = UpdatedAvgParam(avg_param, p, step_num)
    /\ sample_log' = Sampled(sample_log, p, step_num)

PU_epoch_begin == puh' = [puh EXCEPT !.batch_id = 0]

\* (mutation of PUStepDue: the step counted on the last batch of an interval)
PUStepDueLast(batch_id, grad_interval) == batch_id % grad_interval = grad_interval - 1

\* batch_end: self.batch_id % self.grad_interval == 0
PUStepDue(batch_id, grad_interval) == batch_id % grad_interval = 0

\* batch_end: self.batch_id % self.grad_interval == self.grad_interval - 1
PUAvgDue(batch_id, grad_interval) == batch_id % grad_interval = grad_interval - 1

\* batch_end, run when the live parameters are p
PU_batch_end(p) ==
    LET step == IF PUStepDue(puh.batch_id, cfg.grad_interval)
                THEN puh.step_num + 1 ELSE puh.step_num
    IN  /\ IF PUAvgDue(puh.batch_id, cfg.grad_interval)
           THEN PU_update_avg_param(p, step)
           ELSE UNCHANGED << avg_param, sample_log >>
        /\ puh' = [batch_id |-> puh.batch_id + 1, step_num |-> step]

\* epoch_end, run when the live parameters are p
PU_epoch_end(p) ==
    /\ PU_update_avg_param(p, puh.step_num)
    /\ UNCHANGED puh

\* ---------------------------------------------- MTGNMTLearningRateHandler
\* (mutation of DecayDue: the threshold rounded up instead of down)
DecayDueCeil(epoch_id, epochs) == epoch_id + 1 >= (epochs * 2 + 2) \div 3

\* epoch_end: self.epoch_id + 1 >= (self.epochs * 2) // 3
DecayDue(epoch_id, epochs) == epoch_id + 1 >= (epochs * 2) \div 3

\* trainer.learning_rate * self.lr_update_factor (squared)
DecayedLR(rate, factor) == RatMul(rate, RatMul(factor, factor))

GLR_epoch_end ==
    /\ learning_rate' = IF DecayDue(glr.epoch_id, cfg.epochs)
                        THEN DecayedLR(learning_rate, cfg.lr_update_factor)
                        ELSE learning_rate
    /\ glr' = [glr EXCEPT !.epoch_id = glr.epoch_id + 1]

\* -------------------------------------------- MTGNMTGradientUpdateHandler
RECURSIVE SumSquares(_, _)
SumSquares(g, names) ==
    IF names = {} THEN 0
    ELSE LET k == CHOOSE x \in names : TRUE
         IN  g[k] * g[k] + SumSquares(g, names \ {k})

\* square of the global 2-norm of the gradient arrays
GlobalNormSq(g, scale) == RatMul(scale, Rat(SumSquares(g, ParamNames), 1))

\* (mutation of ClipGlobalNorm: the gradients are left as they are)
ClipNothing(g, scale, clip) == scale

\* gluon.utils.clip_global_norm(grads, clip): every array is multiplied by
\* min(clip / norm, 1); the result is the (squared) factor now carried by grad
ClipGlobalNorm(g, scale, clip) ==
    LET norm == GlobalNormSq(g, scale)
        clip_sq == RatMul(clip, clip)
    IN  IF RatLess(clip_sq, norm)
        THEN RatMul(scale, Rat(clip_sq[1] * norm[2], clip_sq[2] * norm[1]))
        ELSE scale

GNMT_batch_end ==
    /\ grad_scale' = ClipGlobalNorm(grad, grad_scale, cfg.clip)
    /\ \E newp \in ParamMaps(cfg.param_vals) : params' = newp
    /\ steps_log' = Append(steps_log,
                           [at |-> nbatch, by |-> "batch_end", scale |-> One,
                            grad |-> grad, grad_scale |-> grad_scale'])
    /\ nsteps' = nsteps + 1
    /\ calls' = << "clip_global_norm", "step" >>
    /\ UNCHANGED grad

\* ---------------------------------------------------- MTCheckpointHandler
EpochIds == 0 .. (MaxEpochs + CkptEpochs)

\* (mutation of CK_epoch_end: the best file also rewritten on an equal score)
CK_epoch_end_on_equal(p, score) ==
    LET improved == score >= ckpt.bleu_score IN
    /\ files' = [files EXCEPT
                   !.valid_best = IF improved THEN p ELSE @,
                   !.epoch = [@ EXCEPT ![ckpt.current_epoch] = p]]
    /\ ckpt' = [bleu_score |-> IF improved THEN score ELSE ckpt.bleu_score,
                current_epoch |-> ckpt.current_epoch + 1]

\* epoch_end, run when the live parameters are p and estimator.bleu_score is score
CK_epoch_end(p, score) ==
    LET improved == score > ckpt.bleu_score IN
    /\ files' = [files EXCEPT
                   !.valid_best = IF improved THEN p ELSE @,
                   !.epoch = [@ EXCEPT ![ckpt.current_epoch] = p]]
    /\ ckpt' = [bleu_score |-> IF improved THEN score ELSE ckpt.bleu_score,
                current_epoch |-> ckpt.current_epoch + 1]

\* train_end: the first statement that raises, or None
\*   range(args.num_averages): args is the tuple of positional arguments
\*   estimator.avg_param[k]: avg_param may still be None
\*   load_parameters('valid_best.params'): the file may not exist
CK_train_end_raises ==
    IF cfg.average_checkpoint THEN "AttributeError"
    ELSE IF cfg.average_start # 0
         THEN (IF avg_param = None THEN "TypeError" ELSE NoError)
         ELSE (IF files.valid_best = NoFile THEN "FileNotFound" ELSE NoError)

\* (mutation of CK_train_end: the averaged parameters are saved but not written
\* back to the live model)
CK_train_end_no_restore ==
    LET saved == IF avg_param # None
                 THEN [files EXCEPT !.average = avg_param] ELSE files
        raised == CK_train_end_raises
    IN  /\ error' = raised
        /\ files' = saved
        /\ IF raised = NoError /\ cfg.average_start = 0 /\ ~cfg.average_checkpoint
           THEN params' = files.valid_best
           ELSE UNCHANGED params

CK_train_end ==
    LET saved == IF avg_param # None
                 THEN [files EXCEPT !.average = avg_param] ELSE files
        raised == CK_train_end_raises
    IN  /\ error' = raised
        /\ IF raised # NoError
           THEN files' = saved /\ UNCHANGED params
           ELSE IF cfg.average_start # 0
                THEN /\ params' = [k \in ParamNames |-> avg_param[k]]
                     /\ files' = [saved EXCEPT !.average = params']
                ELSE /\ params' = files.valid_best
                     /\ files' = saved

\* ------------------------------------- ComputeBleuHandler / ValBleuHandler
\* An entry of real_translation_out: None, the sentence itself (a list of tokens,
\* scheme 'tweaked') or self.detokenizer(self._bpe_to_words(sentence)) (schemes
\* '13a' and 'intl'; the two callables are constructor arguments, so the result is
\* held as the sentence marked detokenized).
Missing == [form |-> "None", text |-> << >>]

Hypothesis(scheme, sentence) ==
    IF scheme = "tweaked" THEN [form |-> "tokens", text |-> sentence]
    ELSE [form |-> "detokenized", text |-> sentence]

RECURSIVE RealTranslationOutAnyScheme(_, _, _, _)
\* (mutation of RealTranslationOut: a scheme the handler does not know is treated
\* like '13a')
RealTranslationOutAnyScheme(out, ids, sentences, scheme) ==
    IF ids = << >> \/ sentences = << >> THEN [raised |-> NoError, out |-> out]
    ELSE IF Head(ids) >= Len(out) THEN [raised |-> "IndexError", out |-> out]
    ELSE RealTranslationOutAnyScheme(
             [out EXCEPT ![Head(ids) + 1] = Hypothesis(scheme, Head(sentences))],
             Tail(ids), Tail(sentences), scheme)

RECURSIVE RealTranslationOut(_, _, _, _)
\* for ind, sentence in zip(all_inst_ids, translation_out): ... run on the list out;
\* the result is the list and the exception that ended the loop, if any
RealTranslationOut(out, ids, sentences, scheme) ==
    IF ids = << >> \/ sentences = << >> THEN [raised |-> NoError, out |-> out]
    ELSE IF scheme \notin {"tweaked", "13a", "intl"}
         THEN [raised |-> "NotImplementedError", out |-> out]
    ELSE IF Head(ids) >= Len(out) THEN [raised |-> "IndexError", out |-> out]
    ELSE RealTranslationOut(
             [out EXCEPT ![Head(ids) + 1] = Hypothesis(scheme, Head(sentences))],
             Tail(ids), Tail(sentences), scheme)

\* The end of both epoch_end methods: the hypotheses are put in instance order and
\* estimator.bleu_score is assigned from compute_bleu_fn (an argument of the
\* constructor: the score it returns is not determined by this repository).
ComputeBleu(ids, sentences) ==
    LET r == RealTranslationOut([i \in 1 .. Len(ids) |-> Missing], ids, sentences,
                                cfg.bleu)
    IN  /\ error' = r.raised
        /\ IF r.raised = NoError
           THEN /\ hyp_log' = Append(hyp_log, r.out)
                /\ \E sc \in cfg.score_vals : bleu_ret' = sc
                /\ bleu_score' = bleu_ret'
           ELSE UNCHANGED << hyp_log, bleu_ret, bleu_score >>

\* The instance ids and translations as the history keeps them.
Decoded(ids, outs) == [i \in 1 .. Len(ids) |-> [id |-> ids[i], out |-> outs[i]]]

\* ComputeBleuHandler.batch_end on a batch with instance ids ids: the translator
\* decodes one sentence for each instance
CB_batch_end(ids) ==
    \E outs \in [1 .. Len(ids) -> cfg.sentence_vals] :
        /\ cbh' = [all_inst_ids |-> cbh.all_inst_ids \o ids,
                   translation_out |-> cbh.translation_out \o outs]
        /\ decoded' = decoded \o Decoded(ids, outs)

CB_epoch_end ==
    /\ ComputeBleu(cbh.all_inst_ids, cbh.translation_out)
    /\ UNCHANGED << cbh, decoded >>

RECURSIVE Flatten(_)
Flatten(batches) ==
    IF batches = << >> THEN << >> ELSE Head(batches) \o Flatten(Tail(batches))

\* (mutation of VB_epoch_end: the two lists are kept on the handler, as in
\* ComputeBleuHandler)
VB_epoch_end_buffered ==
    LET ids == Flatten(cfg.val_data) IN
    \E outs \in [1 .. Len(ids) -> cfg.sentence_vals] :
        /\ cbh' = [all_inst_ids |-> cbh.all_inst_ids \o ids,
                   translation_out |-> cbh.translation_out \o outs]
        /\ ComputeBleu(cbh'.all_inst_ids, cbh'.translation_out)
        /\ decoded' = Decoded(ids, outs)

\* ValBleuHandler.epoch_end: self.val_data is translated into two fresh lists
VB_epoch_end ==
    LET ids == Flatten(cfg.val_data) IN
    \E outs \in [1 .. Len(ids) -> cfg.sentence_vals] :
        /\ ComputeBleu(ids, outs)
        /\ decoded' = Decoded(ids, outs)
        /\ UNCHANGED cbh

\* ------------------------------------------------ batch processor (fit_batch)
\* MTTransformerBatchProcessor / MTGNMTBatchProcessor.fit_batch: the forward and
\* backward pass of one batch.  It records the batch's valid target tokens on the
\* estimator, and backward() writes the batch's gradient to the buffers
\* (grad_req "write") or adds it to them (grad_req "add").
Backward(g) ==
    /\ grad' = IF grad_req = "add" THEN [k \in ParamNames |-> grad[k] + g[k]] ELSE g
    /\ grad_scale' = One

\* --------------------------------------------- LanguageModelBatchProcessor
\* A recurrent state of one device: its content, its batch dimension, and the
\* calls of fit_batch whose recorded computations are in its gradient history.
ZeroState(size) == [val |-> 0, size |-> size, hist |-> {}]

\* estimator.detach(hiddens): the same values, severed from their gradient history
Detach(hs) == [i \in 1 .. Len(hs) |-> [hs[i] EXCEPT !.hist = {}]]

\* train_batch[:-1] of a batch of shape <<rows, cols>>
DataShape(shape) == << shape[1] - 1, shape[2] >>

\* split_and_load(data, estimator.context, batch_axis, even_split=True): the shape
\* of every slice; the data must divide evenly among the devices
EvenSplitRaises(shape, batch_axis, num_devices) ==
    shape[batch_axis + 1] % num_devices # 0 \/ shape[batch_axis + 1] < num_devices

SliceShape(shape, batch_axis, num_devices) ==
    [shape EXCEPT ![batch_axis + 1] = shape[batch_axis + 1] \div num_devices]

\* X.size of a slice
Size(shape) == shape[1] * shape[2]

\* (mutation of Hiddens: the carried state keeps its gradient history)
HiddensAttached(hs, batch_size, num_devices) ==
    IF hs = None
    THEN [i \in 1 .. num_devices |-> ZeroState(batch_size \div num_devices)]
    ELSE hs

\* The states that enter the forward pass: begin_state(batch_size // len(context),
\* func=zeros) for each device when the slot is None, else the detached slot
Hiddens(hs, batch_size, num_devices) ==
    IF hs = None
    THEN [i \in 1 .. num_devices |-> ZeroState(batch_size \div num_devices)]
    ELSE Detach(hs)

\* (mutation of NormalizedLoss: the division leaves out the number of devices)
NormalizedLossPerSlice(l, num_devices, size) == Rat(l, size)

\* l / (len(estimator.context) * X.size)
NormalizedLoss(l, num_devices, size) == Rat(l, num_devices * size)

\* l * (len(estimator.context) * X.size), X being the last slice of the loop
RescaledLoss(l, num_devices, size) == RatMul(l, Rat(num_devices * size, 1))

\* The state the network returns for the state h and the values v it computes:
\* inside autograd.record() the call is added to the history (fit_batch), outside
\* it the result has none (evaluate_batch).
NetState(h, v, recorded) == [val |-> v, size |-> h.size, hist |-> h.hist \cup recorded]

\* fit_batch(estimator, train_batch, batch_axis) on a batch of shape shape; the
\* network computes the state values vals and estimator.loss the losses ls, one
\* for each device
LM_fit_batch(shape, batch_axis, vals, ls) ==
    LET n == cfg.num_devices
        batch_size == shape[batch_axis + 1]
        data == DataShape(shape)
        call == lm_log.fits + 1
    IN  IF EvenSplitRaises(data, batch_axis, n)
        THEN /\ error' = "ValueError"
             /\ UNCHANGED << hiddens, eval_hiddens, lm_log >>
        ELSE LET X == [i \in 1 .. n |-> SliceShape(data, batch_axis, n)]
                 entered == Hiddens(hiddens, batch_size, n)
                 Ls == [i \in 1 .. n |-> NormalizedLoss(ls[i], n, Size(X[i]))]
             IN  /\ hiddens' = [i \in 1 .. n |-> NetState(entered[i], vals[i], {call})]
                 /\ lm_log' = [fits |-> call,
                               synthesized |-> lm_log.synthesized
                                                 + (IF hiddens = None THEN 1 ELSE 0),
                               batch_size |-> batch_size,
                               entered |-> entered,
                               out |-> [i \in 1 .. n |->
                                           NetState(entered[i], vals[i], {call})],
                               sizes |-> [i \in 1 .. n |-> Size(X[i])],
                               loss |-> ls,
                               backward |-> Ls,
                               returned |-> [i \in 1 .. n |->
                                               RescaledLoss(Ls[i], n, Size(X[n]))],
                               evals |-> lm_log.evals]
                 /\ UNCHANGED << error, eval_hiddens >>

\* (mutation of LM_evaluate_batch: the first evaluation starts from the training
\* state when there is one)
LM_evaluate_batch_from_train(shape, vals) ==
    LET n == cfg.num_devices
        batch_size == shape[2]
        data == DataShape(shape)
    IN  IF EvenSplitRaises(data, 1, n)
        THEN /\ error' = "ValueError"
             /\ UNCHANGED << eval_hiddens, hiddens, lm_log >>
        ELSE LET entered == Hiddens(IF eval_hiddens = None THEN hiddens ELSE eval_hiddens,
                                    batch_size, n)
             IN  /\ eval_hiddens' = [i \in 1 .. n |-> NetState(entered[i], vals[i], {})]
                 /\ lm_log' = [lm_log EXCEPT !.evals = @ + 1]
                 /\ UNCHANGED << error, hiddens >>

\* evaluate_batch(estimator, val_batch): batch_axis is set to 1; the forward pass
\* is not recorded
LM_evaluate_batch(shape, vals) ==
    LET n == cfg.num_devices
        batch_size == shape[2]
        data == DataShape(shape)
    IN  IF EvenSplitRaises(data, 1, n)
        THEN /\ error' = "ValueError"
             /\ UNCHANGED << eval_hiddens, hiddens, lm_log >>
        ELSE LET entered == Hiddens(eval_hiddens, batch_size, n)
             IN  /\ eval_hiddens' = [i \in 1 .. n |-> NetState(entered[i], vals[i], {})]
                 /\ lm_log' = [lm_log EXCEPT !.evals = @ + 1]
                 /\ UNCHANGED << error, hiddens >>

\* estimator.hiddens after a fit_batch call that found hs in the slot (call: the
\* number of the call among the fit_batch calls), and estimator.eval_hiddens after
\* an evaluate_batch call that found hs in the slot; a call that raises leaves the
\* slot as it was.
FitAlone(hs, shape, batch_axis, vals, call) ==
    LET n == cfg.num_devices IN
    IF EvenSplitRaises(DataShape(shape), batch_axis, n) THEN hs
    ELSE [i \in 1 .. n |->
             NetState(Hiddens(hs, shape[batch_axis + 1], n)[i], vals[i], {call})]

EvaluateAlone(hs, shape, vals) ==
    LET n == cfg.num_devices IN
    IF EvenSplitRaises(DataShape(shape), 1, n) THEN hs
    ELSE [i \in 1 .. n |-> NetState(Hiddens(hs, shape[2], n)[i], vals[i], {})]

\* ------------------------------------------------------ the fit loop
Attached(h) == h \in cfg.handlers

TrainBegin ==
    /\ phase = "constructed"
    /\ phase' = "train_begun"
    /\ IF Attached("GA") THEN GA_train_begin ELSE UNCHANGED << grad_req, grad >>
    /\ calls' = << >>
    /\ UNCHANGED << cfg, epoch, nbatch, error, tgt_valid_length, avg_param, bleu_score,
                    params, grad_scale, learning_rate, lrh, gah, puh, glr, ckpt, files,
                    tokens_log, steps_log, nsteps, sample_log, score_log >>
    /\ pending' = << >>
    /\ UNCHANGED << bleu_vars, lm_vars, mh, stray, batches_log >>

EpochBegin ==
    /\ phase \in {"train_begun", "epoch_ended"}
    /\ epoch < cfg.max_epochs
    /\ phase' = "in_epoch"
    /\ nbatch' = 0
    /\ tokens_log' = << >>
    /\ steps_log' = << >>
    /\ calls' = << >>
    /\ IF Attached("LR") THEN LR_epoch_begin ELSE UNCHANGED lrh
    /\ IF Attached("GA") THEN GA_epoch_begin ELSE UNCHANGED gah
    /\ IF Attached("PU") THEN PU_epoch_begin ELSE UNCHANGED puh
    /\ IF Attached("MH") THEN MH_epoch_begin ELSE UNCHANGED mh
    /\ UNCHANGED << cfg, epoch, error, tgt_valid_length, avg_param, bleu_score, params,
                    grad, grad_scale, grad_req, learning_rate, glr, ckpt, files,
                    nsteps, sample_log, score_log >>
    /\ decoded' = << >>
    /\ UNCHANGED << cbh, hyp_log, bleu_ret, lm_vars, stray, pending, batches_log >>

\* A handler raises: the exception leaves the fit loop, no later handler is called.
Raise(e) ==
    /\ error' = e
    /\ phase' = "aborted"
    /\ UNCHANGED << handler_vars, lm_vars >>

\* An attached handler reads an attribute that no epoch_begin has assigned yet; it
\* does so in its first statement.
BatchBeginRaises == (Attached("LR") /\ LR_raises) \/ (Attached("MH") /\ MH_raises)
BatchEndRaises == Attached("GA") /\ GA_raises
EpochEndRaises == Attached("GA") /\ gah.loss_denom = Absent

BatchBeginHandlers ==
    /\ phase' = "batch_begun"
    /\ calls' = << >>
    /\ IF Attached("LR") THEN LR_batch_begin ELSE UNCHANGED << lrh, learning_rate >>
    /\ IF Attached("MH") THEN MH_batch_begin ELSE UNCHANGED mh
    /\ UNCHANGED << cfg, epoch, nbatch, error, tgt_valid_length, avg_param, bleu_score,
                    params, grad, grad_scale, grad_req, gah, puh, glr, ckpt, files,
                    tokens_log, steps_log, nsteps, sample_log, score_log >>
    /\ UNCHANGED << bleu_vars, lm_vars, pending, batches_log >>

DeliverBatchBegin ==
    IF BatchBeginRaises THEN Raise("AttributeError") ELSE BatchBeginHandlers

BatchBegin ==
    /\ phase = "in_epoch"
    /\ nbatch < cfg.max_batches
    /\ DeliverBatchBegin
    /\ UNCHANGED stray

FitBatch ==
    /\ phase = "batch_begun"
    /\ phase' = "batch_fit"
    /\ \E t \in cfg.token_vals, g \in [ParamNames -> cfg.grad_vals] :
          /\ tgt_valid_length' = t
          /\ tokens_log' = Append(tokens_log, t)
          /\ Backward(g)
          /\ pending' = IF Attached("GA")
                        THEN Append(pending, [epoch |-> epoch, tokens |-> t, g |-> g])
                        ELSE pending
    /\ calls' = << >>
    /\ UNCHANGED << cfg, epoch, nbatch, error, avg_param, bleu_score, params, grad_req,
                    learning_rate, lrh, gah, puh, glr, ckpt, files, steps_log, nsteps,
                    sample_log, score_log >>
    /\ UNCHANGED << bleu_vars, lm_vars, mh, stray, batches_log >>

\* Handlers run in priority order: the gradient-update handler first.
BatchEndHandlers ==
    /\ phase' = "in_epoch"
    /\ nbatch' = nbatch + 1
    /\ IF Attached("GA") THEN GA_batch_end /\ UNCHANGED grad_scale
       ELSE IF Attached("GNMT") THEN GNMT_batch_end /\ UNCHANGED gah
       ELSE /\ calls' = << >>
            /\ UNCHANGED << gah, params, grad, grad_scale, steps_log, nsteps >>
    /\ IF Attached("PU") THEN PU_batch_end(params')
       ELSE UNCHANGED << puh, avg_param, sample_log >>
    /\ IF Attached("CB")
       THEN CB_batch_end(cfg.train_data[nbatch + 1]) /\ UNCHANGED << hyp_log, bleu_ret >>
       ELSE UNCHANGED bleu_vars
    /\ UNCHANGED << cfg, epoch, error, tgt_valid_length, bleu_score, grad_req,
                    learning_rate, lrh, glr, ckpt, files, tokens_log, score_log >>
    /\ pending' = IF Attached("GA") /\ nsteps' # nsteps THEN << >> ELSE pending
    /\ UNCHANGED << lm_vars, mh, batches_log >>

DeliverBatchEnd ==
    IF BatchEndRaises THEN Raise("AttributeError") ELSE BatchEndHandlers

BatchEnd ==
    /\ phase = "batch_fit"
    /\ DeliverBatchEnd
    /\ UNCHANGED stray

\* Handlers run in priority order: the gradient-update handler first; the BLEU
\* handler is listed before the checkpoint handler, which reads its score.  The
\* epoch ends when the training data is exhausted; an exception raised by a
\* handler ends the run before the handlers after it are called.
EpochEndHandlers ==
    /\ IF Attached("GA") THEN GA_epoch_end
       ELSE /\ calls' = << >>
            /\ UNCHANGED << gah, params, grad, steps_log, nsteps >>
    /\ IF Attached("PU") THEN PU_epoch_end(params')
       ELSE UNCHANGED << puh, avg_param, sample_log >>
    /\ IF Attached("GLR") THEN GLR_epoch_end ELSE UNCHANGED << glr, learning_rate >>
    \* "BLEU": either BLEU handler with a supported scheme, by its effect on the
    \* estimator only: estimator.bleu_score = compute_bleu_fn(...)
    /\ IF Attached("BLEU")
       THEN /\ \E sc \in cfg.score_vals : bleu_score' = sc
            /\ UNCHANGED << error, bleu_vars >>
       ELSE IF Attached("CB") THEN CB_epoch_end
       ELSE IF Attached("VB") THEN VB_epoch_end
       ELSE UNCHANGED << bleu_score, error, bleu_vars >>
    /\ phase' = IF error' = NoError THEN "epoch_ended" ELSE "aborted"
    /\ epoch' = IF error' = NoError THEN epoch + 1 ELSE epoch
    /\ IF Attached("CK") /\ error' = NoError
       THEN /\ CK_epoch_end(params', bleu_score')
            /\ score_log' = Append(score_log, [score |-> bleu_score', params |-> params'])
       ELSE UNCHANGED << ckpt, files, score_log >>
    /\ UNCHANGED << cfg, nbatch, tgt_valid_length, grad_scale, grad_req, lrh,
                    tokens_log >>
    /\ pending' = IF Attached("GA") /\ nsteps' # nsteps THEN << >> ELSE pending
    /\ batches_log' = IF cfg.handlers = {"LR"} /\ error' = NoError
                      THEN Append(batches_log, nbatch) ELSE batches_log
    /\ UNCHANGED << lm_vars, mh >>

DeliverEpochEnd ==
    IF EpochEndRaises THEN Raise("AttributeError") ELSE EpochEndHandlers

EpochEnd ==
    /\ phase = "in_epoch"
    /\ Attached("CB") => nbatch = Len(cfg.train_data)
    /\ DeliverEpochEnd
    /\ UNCHANGED stray

TrainEnd ==
    /\ phase \in {"train_begun", "epoch_ended"}
    /\ calls' = << >>
    /\ IF Attached("CK")
       THEN /\ CK_train_end
            /\ phase' = IF error' = NoError THEN "done" ELSE "aborted"
       ELSE /\ phase' = "done"
            /\ UNCHANGED << error, params, files >>
    /\ UNCHANGED << cfg, epoch, nbatch, tgt_valid_length, avg_param, bleu_score, grad,
                    grad_scale, grad_req, learning_rate, lrh, gah, puh, glr, ckpt,
                    tokens_log, steps_log, nsteps, sample_log, score_log >>
    /\ UNCHANGED << bleu_vars, lm_vars, mh, stray, pending, batches_log >>

Next == TrainBegin \/ EpochBegin \/ BatchBegin \/ FitBatch \/ BatchEnd \/ EpochEnd \/ TrainEnd

\* A caller that does not keep the lifecycle order: after train_begin, before any
\* epoch_begin, it delivers a batch_begin, a batch_end or an epoch_end to the
\* handlers, and goes on from there.
StrayBatchBegin ==
    /\ phase = "train_begun"
    /\ DeliverBatchBegin
    /\ stray' = "batch_begin"

StrayBatchEnd ==
    /\ phase = "train_begun"
    /\ DeliverBatchEnd
    /\ stray' = "batch_end"

StrayEpochEnd ==
    /\ phase = "train_begun"
    /\ DeliverEpochEnd
    /\ stray' = "epoch_end"

NextStray == Next \/ StrayBatchBegin \/ StrayBatchEnd \/ StrayEpochEnd

\* ----------------------------------------------------------- construction
\* The slots of the language model estimator before the first batch.
LMConstructed ==
    /\ hiddens = None
    /\ eval_hiddens = None
    /\ lm_log = [fits |-> 0, synthesized |-> 0, batch_size |-> 0, entered |-> << >>,
                 out |-> << >>, sizes |-> << >>, loss |-> << >>, backward |-> << >>, returned |-> << >>,
                 evals |-> 0]
    /\ fit_only = None
    /\ eval_only = None

\* The state after the estimator and the handlers are constructed with the
\* arguments c.
Constructed(c) ==
    /\ cfg = c
    /\ phase = "constructed"
    /\ epoch = 0
    /\ nbatch = 0
    /\ error = NoError
    /\ tgt_valid_length = 0
    /\ avg_param = None
    /\ bleu_score = 0
    /\ params \in ParamMaps({0})
    /\ grad = ZeroGrad
    /\ grad_scale = One
    /\ grad_req = "write"
    /\ learning_rate = Rat(c.lr * c.lr, 1)
    /\ lrh = [batch_id |-> Absent, step_num |-> 0]
    /\ gah = [batch_id |-> Absent, loss_denom |-> Absent]
    /\ puh = [batch_id |-> 0, step_num |-> 0]
    /\ glr = [epoch_id |-> 0]
    /\ ckpt = [bleu_score |-> 0, current_epoch |-> 0]
    /\ files = [valid_best |-> NoFile, average |-> NoFile, average_checkpoint |-> NoFile,
                epoch |-> [k \in EpochIds |-> NoFile]]
    /\ calls = << >>
    /\ tokens_log = << >>
    /\ steps_log = << >>
    /\ nsteps = 0
    /\ sample_log = << >>
    /\ score_log = << >>
    /\ cbh = [all_inst_ids |-> << >>, translation_out |-> << >>]
    /\ mh = [batch_id |-> Absent]
    /\ LMConstructed
    /\ decoded = << >>
    /\ hyp_log = << >>
    /\ bleu_ret = Absent
    /\ stray = NoEvent
    /\ pending = << >>
    /\ batches_log = << >>

\* Arguments shared by the specifications; each overrides what it varies.
BaseCfg ==
    [handlers |-> {}, grad_interval |-> 1,
     batch_size |-> BatchSizeDefault, rescale_loss |-> RescaleLossDefault,
     lr |-> 1, num_units |-> NumUnitsDefault, warmup_steps |-> 1,
     avg_start |-> 0, epochs |-> 1, lr_update_factor |-> << 1, 2 >>, clip |-> << 1, 1 >>,
     average_checkpoint |-> FALSE, num_averages |-> 1, average_start |-> 0,
     bleu |-> "13a", train_data |-> << >>, val_data |-> << >>,
     num_devices |-> 1, batch_axis |-> 0, max_calls |-> 0,
     shape_vals |-> {},
     sentence_vals |-> {<< >>},
     param_vals |-> {0}, grad_vals |-> {1}, token_vals |-> {1}, score_vals |-> {0},
     max_epochs |-> MaxEpochs, max_batches |-> MaxBatches]

\* Transformer training: learning-rate schedule and gradient accumulation.
InitAccum ==
    \E gi \in 1 .. MaxInterval, w \in 1 .. MaxWarmup :
        Constructed([BaseCfg EXCEPT !.handlers = {"LR", "GA"},
                                    !.grad_interval = gi,
                                    !.warmup_steps = w,
                                    !.token_vals = 0 .. MaxTokens])

SpecAccum == InitAccum /\ [][Next]_vars

\* The transformer handlers that keep a batch index, alone and together, under a
\* caller that may deliver events out of order.
StrayHandlers == {{"LR"}, {"GA"}, {"PU"}, {"MH"}, {"LR", "GA", "PU", "MH"}}

InitStray ==
    \E h \in StrayHandlers, gi \in 1 .. MaxInterval :
        Constructed([BaseCfg EXCEPT !.handlers = h,
                                    !.grad_interval = gi,
                                    !.max_epochs = StrayEpochs,
                                    !.max_batches = StrayBatches])

SpecStray == InitStray /\ [][NextStray]_vars

\* Transformer training: the pace of the learning-rate schedule against the pace of
\* the optimizer steps, on batches that all have valid tokens and on batches that
\* may have none.
InitPace ==
    \E gi \in 1 .. MaxInterval, tv \in {{1}, {0, 1}} :
        Constructed([BaseCfg EXCEPT !.handlers = {"LR", "GA"},
                                    !.grad_interval = gi,
                                    !.token_vals = tv,
                                    !.max_epochs = StrayEpochs,
                                    !.max_batches = PaceBatches])

SpecPace == InitPace /\ [][Next]_vars

\* Transformer training, the learning-rate schedule alone.
InitRate ==
    \E gi \in 1 .. MaxInterval, w \in 1 .. MaxWarmup :
        Constructed([BaseCfg EXCEPT !.handlers = {"LR"},
                                    !.grad_interval = gi,
                                    !.warmup_steps = w])

SpecRate == InitRate /\ [][Next]_vars

\* GNMT training: epoch-wise learning-rate decay and clipped gradient updates.
InitGNMT ==
    \E e \in 1 .. MaxGnmtEpochs, c \in {<< 1, 1 >>, << 3, 2 >>} :
        Constructed([BaseCfg EXCEPT !.handlers = {"GLR", "GNMT"},
                                    !.epochs = e,
                                    !.max_epochs = e,
                                    !.max_batches = GnmtBatches,
                                    !.clip = c,
                                    !.grad_vals = 0 .. MaxGrad])

SpecGNMT == InitGNMT /\ [][Next]_vars

\* Transformer training with parameter averaging: gradient accumulation (the
\* optimizer steps that move the live parameters) and MTTransformerParamUpdateHandler.
InitAvg ==
    \E gi \in 1 .. MaxAvgInterval, a \in 0 .. MaxAvgStart :
        Constructed([BaseCfg EXCEPT !.handlers = {"GA", "PU"},
                                    !.grad_interval = gi,
                                    !.avg_start = a,
                                    !.max_epochs = AvgEpochs,
                                    !.max_batches = AvgBatches,
                                    !.param_vals = {0, 1}])

SpecAvg == InitAvg /\ [][Next]_vars

\* Training with MTCheckpointHandler: optimizer steps every batch, a BLEU handler
\* that scores every epoch, with or without the parameter-averaging handler.
CkptHandlers == {{"GA", "BLEU", "CK"}, {"GA", "BLEU", "CK", "PU"}}

InitCkpt ==
    \E h \in CkptHandlers, ac \in BOOLEAN, as \in 0 .. 1 :
        Constructed([BaseCfg EXCEPT !.handlers = h,
                                    !.average_checkpoint = ac,
                                    !.average_start = as,
                                    !.epochs = CkptEpochs,
                                    !.max_epochs = CkptEpochs,
                                    !.max_batches = CkptBatches,
                                    !.score_vals = 0 .. MaxScore,
                                    !.param_vals = {0, 1}])

SpecCkpt == InitCkpt /\ [][Next]_vars

\* Training with a BLEU handler: ComputeBleuHandler translates the training
\* batches, ValBleuHandler a validation set.  A data set is a sequence of batches
\* of instance ids that presents each id 0 .. n-1 once, in any order, one instance
\* to a batch or all in one batch; the empty data set has no batch.
Perms(n) == {p \in [1 .. n -> 0 .. (n - 1)] : \A i, j \in 1 .. n : i # j => p[i] # p[j]}

Datasets ==
    {<< >>} \cup
    UNION {{[i \in 1 .. n |-> << p[i] >>] : p \in Perms(n)} \cup {<< p >> : p \in Perms(n)} :
           n \in 1 .. MaxInst}

\* The schemes of the constructor argument bleu: the three the handlers know and
\* one they do not.
BleuSchemes == {"tweaked", "13a", "intl", "sacrebleu"}

InitBleu ==
    \E h \in {{"CB"}, {"VB"}}, d \in Datasets, b \in BleuSchemes :
        Constructed([BaseCfg EXCEPT !.handlers = h,
                                    !.bleu = b,
                                    !.train_data = d,
                                    !.val_data = d,
                                    !.sentence_vals = {<< "a" >>, << "b", "c" >>},
                                    !.score_vals = {0, 1},
                                    !.max_epochs = BleuEpochs,
                                    !.max_batches = Len(d)])

SpecBleu == InitBleu /\ [][Next]_vars

\* Language model training: the estimator calls fit_batch on the training batches
\* and evaluate_batch on the validation batches, in any interleaving; the handlers'
\* state takes no part.
mt_vars == << phase, stray, handler_vars >>

\* The values the network and the loss compute for the devices (a sample: the
\* same value on every device, or a different one on each).
HiddenVals(n) == {[i \in 1 .. n |-> 1], [i \in 1 .. n |-> i + 1]}
LossVals(n) == {[i \in 1 .. n |-> 1], [i \in 1 .. n |-> 2 * i + 1]}

FitBatchLM ==
    /\ error = NoError
    /\ lm_log.fits < cfg.max_calls
    /\ \E shape \in cfg.shape_vals, vals \in HiddenVals(cfg.num_devices),
          ls \in LossVals(cfg.num_devices) :
            /\ LM_fit_batch(shape, cfg.batch_axis, vals, ls)
            /\ fit_only' = FitAlone(fit_only, shape, cfg.batch_axis, vals, lm_log.fits + 1)
    /\ UNCHANGED << mt_vars, eval_only >>

EvaluateBatchLM ==
    /\ error = NoError
    /\ lm_log.evals < cfg.max_calls
    /\ \E shape \in cfg.shape_vals, vals \in HiddenVals(cfg.num_devices) :
            /\ LM_evaluate_batch(shape, vals)
            /\ eval_only' = EvaluateAlone(eval_only, shape, vals)
    /\ UNCHANGED << mt_vars, fit_only >>

NextLM == FitBatchLM \/ EvaluateBatchLM

InitLM ==
    \E n \in 1 .. MaxDevices, axis \in {0, 1} :
        Constructed([BaseCfg EXCEPT !.num_devices = n,
                                    !.batch_axis = axis,
                                    !.max_calls = MaxCalls,
                                    !.shape_vals = (2 .. MaxRows) \X (1 .. MaxCols)])

SpecLM == InitLM /\ [][NextLM]_vars

\* ================================================================ claims
\* The optimizer steps of the current epoch taken by batch_end, as indices of steps_log.
BatchEndSteps == {k \in 1 .. Len(steps_log) : steps_log[k].by = "batch_end"}

\* The token counts of the batches with 0-based indices lo .. hi of the current epoch.
TokensOf(lo, hi) == SumSeq(SubSeq(tokens_log, lo + 1, hi + 1))

\* The 0-based index of the batch at which the step before steps_log[k] was taken
\* (-1 at the first step of the epoch).
PrevStepAt(k) == IF k = 1 THEN 0 - 1 ELSE steps_log[k - 1].at

\* C1: within an epoch, a batch_end applies the optimizer step iff the batch's
\* 0-based index i has i % grad_interval = grad_interval - 1, and the scale it
\* passes is (tokens of the batches since the previous step or since epoch_begin)
\* / batch_size / rescale_loss.
C1_StepEveryInterval ==
    Attached("GA") =>
      /\ \A i \in 0 .. (nbatch - 1) :
            Cardinality({k \in BatchEndSteps : steps_log[k].at = i})
              = IF i % cfg.grad_interval = cfg.grad_interval - 1 THEN 1 ELSE 0
      /\ \A k \in BatchEndSteps :
            /\ steps_log[k].at < nbatch
            /\ steps_log[k].scale =
                 Rat(TokensOf(PrevStepAt(k) + 1, steps_log[k].at),
                     cfg.batch_size * cfg.rescale_loss)

C1_Witness ==
    /\ Attached("GA")
    /\ cfg.grad_interval = 2
    /\ nbatch = 4
    /\ Len(steps_log) = 2
    /\ tokens_log = << 1, 2, 0, 1 >>
    /\ steps_log[1].scale = Rat(3, 102400)
    /\ steps_log[2].scale = Rat(1, 102400)

RECURSIVE SumScales(_)
SumScales(log) ==
    IF log = << >> THEN << 0, 1 >> ELSE RatAdd(Head(log).scale, SumScales(Tail(log)))

\* C2: after epoch_end, for an epoch of any number of batches and any
\* grad_interval, loss_denom is 0 and the denominators of the epoch's optimizer
\* steps add up to the token counts of the epoch's batches.
C2_EpochFlushed ==
    (Attached("GA") /\ phase = "epoch_ended") =>
      /\ gah.loss_denom = 0
      /\ SumScales(steps_log) = Rat(SumSeq(tokens_log), cfg.batch_size * cfg.rescale_loss)

C2_Witness ==
    /\ Attached("GA")
    /\ phase = "epoch_ended"
    /\ cfg.grad_interval = 2
    /\ tokens_log = << 1, 1, 2 >>
    /\ Len(steps_log) = 2
    /\ steps_log[2].by = "epoch_end"
    /\ steps_log[2].scale = Rat(2, 102400)

\* loss_denom is unassigned exactly until the first epoch_begin, and a natural
\* number from then on.
LossDenomNat ==
    IF epoch = 0 /\ phase \notin {"in_epoch", "batch_begun", "batch_fit"}
    THEN gah.loss_denom = Absent
    ELSE gah.loss_denom \in Nat

\* C3: loss_denom, once assigned, is a non-negative integer in every reachable
\* state, and right after every optimizer step of _update_gradient the gradients
\* are zero and loss_denom is 0.
C3_DenomNonNegative ==
    /\ [](Attached("GA") => LossDenomNat)
    /\ [][(Attached("GA") /\ nsteps' # nsteps) =>
              /\ grad' = ZeroGrad
              /\ gah'.loss_denom = 0
              /\ calls' = << "step", "zero_grad" >>]_vars

C3_Witness ==
    /\ Attached("GA")
    /\ nsteps = 2
    /\ phase = "batch_fit"
    /\ gah.loss_denom = 2
    /\ grad # ZeroGrad

\* The smaller of two rationals, stated by its property.
Smaller(a, b) == CHOOSE x \in {a, b} : RatLeq(x, a) /\ RatLeq(x, b)

\* C5: batch_begin of the batch with 0-based in-epoch index i: if
\* i % grad_interval = 0, step_num grows by exactly 1 and the learning rate becomes
\* lr / sqrt(num_units) * min(1/sqrt(s), s * warmup_steps^-1.5) for the new step_num
\* s (compared by squares); otherwise step_num and the learning rate stay.
C5_RateEveryInterval ==
    [][(Attached("LR") /\ phase = "in_epoch" /\ phase' = "batch_begun") =>
         IF nbatch % cfg.grad_interval = 0
         THEN LET s == lrh.step_num + 1
                  w == cfg.warmup_steps
              IN  /\ lrh'.step_num = s
                  /\ learning_rate' =
                       RatMul(Rat(cfg.lr * cfg.lr, cfg.num_units),
                              Smaller(Rat(1, s), Rat(s * s, w * w * w)))
         ELSE /\ lrh'.step_num = lrh.step_num
              /\ learning_rate' = learning_rate]_vars

C5_Witness ==
    /\ Attached("LR")
    /\ phase = "batch_begun"
    /\ cfg.grad_interval = 2
    /\ cfg.warmup_steps = 2
    /\ nbatch = 2
    /\ lrh.step_num = 2
    /\ learning_rate = << 1, 1024 >>

\* The learning rate after an epoch end that decays iff the 1-based index of the
\* epoch just finished has reached threshold.
RateAfterEpoch(threshold) ==
    IF epoch + 1 >= threshold
    THEN RatMul(learning_rate, RatMul(cfg.lr_update_factor, cfg.lr_update_factor))
    ELSE learning_rate

GnmtEpochEnd == Attached("GLR") /\ phase = "in_epoch" /\ phase' = "epoch_ended"

\* C6 (as stated): epoch_end multiplies the learning rate by lr_update_factor once
\* iff the 1-based index of the epoch just finished has reached ceil(2*epochs/3),
\* and leaves it unchanged at earlier epoch ends.
C6_DecayFromCeil ==
    [][GnmtEpochEnd => learning_rate' = RateAfterEpoch((2 * cfg.epochs + 2) \div 3)]_vars

\* C6 (amended): epoch_end multiplies the learning rate by lr_update_factor once
\* iff the 1-based index of the epoch just finished has reached floor(2*epochs/3),
\* and leaves it unchanged at earlier epoch ends; from then on every epoch end decays.
C6_DecayFromFloor ==
    [][GnmtEpochEnd => learning_rate' = RateAfterEpoch((2 * cfg.epochs) \div 3)]_vars

\* epochs = 4: the first epoch end leaves the rate, the second (floor(8/3) = 2,
\* where ceil(8/3) = 3) and the third decay it.
C6_Witness ==
    /\ Attached("GLR")
    /\ cfg.epochs = 4
    /\ phase = "epoch_ended"
    /\ epoch = 3
    /\ learning_rate = << 1, 16 >>

\* C7: every batch_end of MTGNMTGradientUpdateHandler makes exactly one global-norm
\* clip to the threshold clip and then exactly one trainer.step(1), and the
\* gradients the step sees have global norm <= clip.
C7_ClipThenStep ==
    Attached("GNMT") =>
      /\ Len(steps_log) = nbatch
      /\ (phase = "in_epoch" /\ nbatch > 0) => calls = << "clip_global_norm", "step" >>
      /\ \A k \in 1 .. Len(steps_log) :
            /\ steps_log[k].at = k - 1
            /\ steps_log[k].by = "batch_end"
            /\ steps_log[k].scale = << 1, 1 >>
            /\ RatLeq(RatMul(steps_log[k].grad_scale,
                             << SumSquares(steps_log[k].grad, ParamNames), 1 >>),
                      RatMul(cfg.clip, cfg.clip))

\* Two batches: the first gradient (2, 2) is clipped to norm 3/2, the second
\* (1, 0) is within the threshold and passes unchanged.
C7_Witness ==
    /\ Attached("GNMT")
    /\ cfg.clip = << 3, 2 >>
    /\ phase = "in_epoch"
    /\ Len(steps_log) = 2
    /\ steps_log[1].grad = [enc |-> 2, dec |-> 2]
    /\ steps_log[1].grad_scale = << 9, 32 >>
    /\ steps_log[2].grad = [enc |-> 1, dec |-> 0]
    /\ steps_log[2].grad_scale = << 1, 1 >>

RECURSIVE SumSamples(_, _, _)
\* The sum of the values of parameter k sampled at steps lo .. hi.
SumSamples(k, lo, hi) ==
    IF lo > hi THEN << 0, 1 >>
    ELSE RatAdd(sample_log[hi][k], SumSamples(k, lo, hi - 1))

\* The arithmetic mean of the values of parameter k sampled at steps lo .. hi.
MeanSamples(k, lo, hi) == RatMul(SumSamples(k, lo, hi), Rat(1, hi - lo + 1))

\* C4: whenever step_num > avg_start, after the averaging update of the current
\* step every entry of estimator.avg_param is the arithmetic mean of the live
\* parameter's values sampled once per step for steps avg_start+1 .. step_num.
C4_RunningMean ==
    (/\ Attached("PU")
     /\ avg_param # None
     /\ puh.step_num > cfg.avg_start
     /\ Len(sample_log) = puh.step_num) =>
        \A k \in ParamNames :
            avg_param[k] = MeanSamples(k, cfg.avg_start + 1, puh.step_num)

\* The scores seen at the epoch ends so far, and the largest of them and 0.
ScoresSeen == {score_log[k].score : k \in 1 .. Len(score_log)}
BestSeen == CHOOSE m \in ScoresSeen \cup {0} : \A x \in ScoresSeen \cup {0} : x <= m

\* The first epoch end (1-based) whose score is the largest seen.
EarliestBest ==
    CHOOSE k \in 1 .. Len(score_log) :
        /\ score_log[k].score = BestSeen
        /\ \A j \in 1 .. (k - 1) : score_log[j].score < BestSeen

CkptEpochEnd == Attached("CK") /\ phase = "in_epoch" /\ phase' = "epoch_ended"

\* C8: the k-th epoch end (k = 0, 1, ...) writes the live parameters to
\* epoch<k>.params and no later epoch end changes that file; valid_best.params is
\* overwritten at an epoch end iff estimator.bleu_score is strictly greater than the
\* stored best; after every epoch end the stored best is the maximum of 0 and the
\* scores seen so far, and valid_best.params, when it exists, holds the parameters
\* of the earliest epoch with that maximum.
C8_EpochAndBestFiles ==
    /\ [](Attached("CK") =>
            /\ ckpt.current_epoch = Len(score_log)
            /\ \A k \in EpochIds :
                  files.epoch[k] = IF k < Len(score_log) THEN score_log[k + 1].params
                                   ELSE NoFile
            /\ ckpt.bleu_score = BestSeen
            /\ files.valid_best = IF BestSeen > 0 THEN score_log[EarliestBest].params
                                  ELSE NoFile)
    /\ [][CkptEpochEnd =>
            /\ files'.epoch[epoch] = params'
            /\ files'.valid_best = IF bleu_score' > ckpt.bleu_score THEN params'
                                   ELSE files.valid_best]_vars

\* Two epochs both scoring 2 with different parameters: valid_best.params holds
\* the first epoch's parameters, epoch1.params the second's.
C8_Witness ==
    /\ Attached("CK")
    /\ phase = "epoch_ended"
    /\ Len(score_log) = 2
    /\ score_log[1].score = 2
    /\ score_log[2].score = 2
    /\ score_log[1].params # score_log[2].params
    /\ files.valid_best = score_log[1].params
    /\ files.epoch[1] = score_log[2].params

RECURSIVE WindowAverage(_, _)
\* The running mean, with weights 1/(j+1), of parameter k over the checkpoints
\* epoch<epochs-1-j>.params for j = 0 .. n-1.
WindowAverage(k, n) ==
    IF n = 1 THEN files.epoch[cfg.epochs - 1][k]
    ELSE LET prev == WindowAverage(k, n - 1)
         IN  RatAdd(prev, RatMul(Rat(1, n),
                                 RatSub(files.epoch[cfg.epochs - n][k], prev)))

TrainEnded == phase \in {"done", "aborted"}

\* C9: train_end with average_checkpoint set completes without error, leaves every
\* live parameter equal to the windowed average of the last num_averages epoch
\* checkpoints (when earlier epoch ends wrote them) and saves the result to
\* average_checkpoint_<num_averages>.params.
C9_WindowAverageSaved ==
    (Attached("CK") /\ cfg.average_checkpoint /\ TrainEnded) =>
      /\ error = NoError
      /\ files.average_checkpoint = params
      /\ (\A j \in 0 .. (cfg.num_averages - 1) :
              cfg.epochs - 1 - j >= 0 /\ files.epoch[cfg.epochs - 1 - j] # NoFile)
           => \A k \in ParamNames : params[k] = WindowAverage(k, cfg.num_averages)

AverageRestore ==
    Attached("CK") /\ ~cfg.average_checkpoint /\ cfg.average_start # 0 /\ TrainEnded

\* C10 (as stated): train_end with average_checkpoint unset and average_start
\* non-zero, in every training run, with or without a parameter-averaging handler,
\* sets every live parameter to its entry of estimator.avg_param and saves the model
\* to average.params, so both equal the averaged parameters.
C10_AverageRestoredAlways ==
    AverageRestore =>
      /\ error = NoError
      /\ avg_param # None
      /\ params = avg_param
      /\ files.average = avg_param

\* C10 (amended): in every training run in which estimator.avg_param has been
\* created (a parameter-averaging handler is attached and has run an update),
\* train_end sets every live parameter to its entry of estimator.avg_param and
\* saves the model to average.params, so both equal the averaged parameters; when
\* estimator.avg_param is still None, train_end raises TypeError and writes no file.
C10_AverageRestoredWhenCreated ==
    AverageRestore =>
      IF avg_param = None
      THEN /\ error = "TypeError"
           /\ phase = "aborted"
           /\ files.average = NoFile
           /\ (~Attached("PU") \/ epoch = 0)
      ELSE /\ error = NoError
           /\ phase = "done"
           /\ params = avg_param
           /\ files.average = avg_param

\* With the averaging handler: the average (3/4 for "enc") differs from every
\* value the optimizer left in the live parameter and is restored and saved.
C10_Witness ==
    /\ AverageRestore
    /\ Attached("PU")
    /\ phase = "done"
    /\ avg_param # None
    /\ avg_param["enc"] = << 3, 4 >>
    /\ params = avg_param
    /\ files.average = avg_param

BestReload ==
    Attached("CK") /\ ~cfg.average_checkpoint /\ cfg.average_start = 0 /\ TrainEnded

\* C11: train_end with neither average_checkpoint nor average_start set, after any
\* run of one or more epochs: valid_best.params exists, it is loaded without error,
\* and the live parameters after train_end are those that were live at an epoch end
\* with the highest estimator.bleu_score.
C11_BestReloaded ==
    (BestReload /\ Len(score_log) >= 1) =>
      /\ error = NoError
      /\ files.valid_best # NoFile
      /\ \E k \in 1 .. Len(score_log) :
            /\ \A j \in 1 .. Len(score_log) : score_log[j].score <= score_log[k].score
            /\ params = score_log[k].params

\* C12: at the epoch_end of every epoch of a run of ComputeBleuHandler in which
\* each epoch presents every instance id 0 .. n-1 exactly once, the hypothesis list
\* passed to compute_bleu_fn has exactly n entries, none of them None, entry i is
\* the translation decoded in that epoch for instance i, and every instance id is
\* in the buffer exactly once.
C12_HypothesesOfEpoch ==
    (Attached("CB") /\ phase = "epoch_ended") =>
      LET n == Len(decoded) IN
      /\ Len(hyp_log) = epoch
      /\ Len(hyp_log[epoch]) = n
      /\ \A i \in 1 .. n : hyp_log[epoch][i] # Missing
      /\ \A k \in 1 .. n :
            hyp_log[epoch][decoded[k].id + 1] = Hypothesis(cfg.bleu, decoded[k].out)
      /\ \A i \in 0 .. (n - 1) :
            Cardinality({k \in 1 .. Len(cbh.all_inst_ids) : cbh.all_inst_ids[k] = i}) = 1

\* An epoch_end delivered to a BLEU handler whose scheme is none of 'tweaked',
\* '13a', 'intl'.
UnsupportedEpochEnd ==
    /\ Attached("CB") \/ Attached("VB")
    /\ cfg.bleu \notin {"tweaked", "13a", "intl"}
    /\ phase = "in_epoch"
    /\ phase' \in {"epoch_ended", "aborted"}

\* The translations the epoch_end is about to score.
Collected == IF Attached("CB") THEN cbh.translation_out ELSE Flatten(cfg.val_data)

\* C13 (as stated): whenever the scheme is not one of 'tweaked', '13a', 'intl',
\* epoch_end of either BLEU handler raises NotImplementedError, compute_bleu_fn is
\* not invoked and estimator.bleu_score keeps its value.
C13_UnsupportedAlwaysRaises ==
    [][UnsupportedEpochEnd =>
         /\ error' = "NotImplementedError"
         /\ hyp_log' = hyp_log
         /\ bleu_score' = bleu_score]_vars

\* C13 (amended): when the scheme is not one of 'tweaked', '13a', 'intl' and at
\* least one translation has been collected, epoch_end of either BLEU handler
\* raises NotImplementedError, compute_bleu_fn is not invoked and
\* estimator.bleu_score keeps its value; with no translation collected nothing is
\* raised and compute_bleu_fn is invoked with an empty hypothesis list.
C13_UnsupportedRaisesOnSentence ==
    [][UnsupportedEpochEnd =>
         IF Collected # << >>
         THEN /\ error' = "NotImplementedError"
              /\ phase' = "aborted"
              /\ hyp_log' = hyp_log
              /\ bleu_score' = bleu_score
         ELSE /\ error' = NoError
              /\ hyp_log' = Append(hyp_log, << >>)]_vars

\* ComputeBleuHandler with an unknown scheme: the first epoch end, with two
\* translations in the buffer, raised before any score was computed.
C13_Witness ==
    /\ Attached("CB")
    /\ cfg.bleu = "sacrebleu"
    /\ phase = "aborted"
    /\ error = "NotImplementedError"
    /\ Len(cbh.translation_out) = 2
    /\ hyp_log = << >>
    /\ bleu_score = 0

\* C14: over any sequence of fit_batch calls, the zero state is synthesized only on
\* the first call (estimator.hiddens is None), one state for each device with batch
\* dimension batch_size // num_devices; every later call enters the forward pass
\* with the previous call's states detached, so the entering states carry no
\* gradient history of earlier batches; after each call estimator.hiddens[i] is the
\* state the network returned for device i on that batch.
C14_HiddenCarried ==
    /\ [](lm_log.fits >= 1 =>
            /\ lm_log.synthesized = 1
            /\ Len(lm_log.entered) = cfg.num_devices
            /\ Len(hiddens) = cfg.num_devices
            /\ \A i \in 1 .. cfg.num_devices :
                  /\ lm_log.entered[i].hist = {}
                  /\ lm_log.fits = 1 =>
                        lm_log.entered[i] =
                          [val |-> 0, size |-> lm_log.batch_size \div cfg.num_devices,
                           hist |-> {}]
                  /\ hiddens[i] = lm_log.out[i]
                  /\ hiddens[i].hist = {lm_log.fits})
    /\ [][lm_log'.synthesized # lm_log.synthesized =>
              (hiddens = None /\ lm_log.fits = 0)]_vars
    /\ [][(lm_log'.fits # lm_log.fits /\ lm_log.fits >= 1) =>
              \A i \in 1 .. cfg.num_devices :
                  /\ lm_log'.entered[i].val = hiddens[i].val
                  /\ lm_log'.entered[i].size = hiddens[i].size]_vars

\* Third call on two devices: the states that entered are the second call's
\* results without their history, the slot holds the third call's results.
C14_Witness ==
    /\ cfg.num_devices = 2
    /\ lm_log.fits = 3
    /\ lm_log.synthesized = 1
    /\ lm_log.entered = << [val |-> 2, size |-> 1, hist |-> {}],
                           [val |-> 3, size |-> 1, hist |-> {}] >>
    /\ hiddens = << [val |-> 1, size |-> 1, hist |-> {3}],
                    [val |-> 1, size |-> 1, hist |-> {3}] >>

\* C20: fit_batch returns exactly one loss for each device, equal to the value
\* estimator.loss produced for that device's slice (the division by
\* num_devices * slice size before backpropagation is undone by the multiplication
\* after it), and backward is called exactly once on each normalized loss, before
\* the rescaling.
C20_LossesRescaled ==
    lm_log.fits >= 1 =>
      /\ Len(lm_log.returned) = cfg.num_devices
      /\ Len(lm_log.backward) = cfg.num_devices
      /\ \A i \in 1 .. cfg.num_devices :
            /\ lm_log.returned[i] = << lm_log.loss[i], 1 >>
            /\ lm_log.backward[i] = Rat(lm_log.loss[i], cfg.num_devices * lm_log.sizes[i])

\* Two devices, slices of two elements: losses 3 and 5 go to backward as 3/4 and
\* 5/4 and are returned as 3 and 5.
C20_Witness ==
    /\ cfg.num_devices = 2
    /\ lm_log.fits >= 1
    /\ lm_log.sizes = << 2, 2 >>
    /\ lm_log.loss = << 3, 5 >>
    /\ lm_log.backward = << << 3, 4 >>, << 5, 4 >> >>
    /\ lm_log.returned = << << 3, 1 >>, << 5, 1 >> >>

\* C15 (as stated): estimator.avg_param is created at the averaging-start point:
\* it is None as long as the step counter of MTTransformerParamUpdateHandler has
\* not reached avg_start, and exists once it has and an update has run.
C15_CreatedAtAvgStart ==
    Attached("PU") =>
      /\ puh.step_num < cfg.avg_start => avg_param = None
      /\ (puh.step_num >= cfg.avg_start /\ epoch >= 1) => avg_param # None

\* C15 (amended): estimator.avg_param is created by the first call of
\* _update_avg_param, whatever avg_start is: it is None exactly until the first
\* batch_end that closes an accumulation interval or the first epoch_end, whichever
\* comes first, and is never None afterwards.
C15_CreatedAtFirstUpdate ==
    Attached("PU") =>
      (avg_param = None <=> (epoch = 0 /\ nbatch < cfg.grad_interval))

\* avg_start = 2: the map exists after the first batch_end, at step 1.
C15_Witness ==
    /\ Attached("PU")
    /\ cfg.avg_start = 2
    /\ cfg.grad_interval = 1
    /\ epoch = 0
    /\ nbatch = 1
    /\ puh.step_num = 1
    /\ avg_param # None

\* C16: the first call of _update_avg_param (estimator.avg_param is None) makes
\* the map a copy of all current parameters, its keys exactly the model's
\* parameter names; afterwards the key set never changes, and while
\* step_num <= avg_start no batch_end or epoch_end changes any of its values, even
\* though the live parameters change.
C16_SnapshotThenFrozen ==
    /\ [](Attached("PU") /\ avg_param # None => DOMAIN avg_param = ParamNames)
    /\ [][(Attached("PU") /\ avg_param = None /\ avg_param' # None) =>
              /\ DOMAIN avg_param' = ParamNames
              /\ \A k \in ParamNames : avg_param'[k] = params'[k]]_vars
    /\ [][(Attached("PU") /\ avg_param # None) =>
              /\ avg_param' # None
              /\ puh'.step_num <= cfg.avg_start => avg_param' = avg_param]_vars

\* avg_start = 2: the snapshot was taken at the first batch_end with "enc" at 1;
\* the second batch_end (step 2) left it, the live parameter is back at 0.
C16_Witness ==
    /\ Attached("PU")
    /\ cfg.avg_start = 2
    /\ cfg.grad_interval = 1
    /\ phase = "in_epoch"
    /\ nbatch = 2
    /\ puh.step_num = 2
    /\ avg_param # None
    /\ avg_param["enc"] = << 1, 1 >>
    /\ params["enc"] = << 0, 1 >>

\* ceil(n / d) for d > 0
CeilDiv(n, d) == (n + d - 1) \div d

\* The rate of the schedule at step s, from the constructor arguments alone.
ScheduledRate(s) ==
    RatMul(Rat(cfg.lr * cfg.lr, cfg.num_units),
           Smaller(Rat(1, s),
                   Rat(s * s, cfg.warmup_steps * cfg.warmup_steps * cfg.warmup_steps)))

\* C18: the step counter of TransformerLearningRateHandler never decreases over the
\* run; epoch_begin resets batch_id only; after k complete epochs of N batches each
\* step_num = k * ceil(N / grad_interval); and the learning rate set at a
\* batch_begin is a function of step_num and the constructor arguments only.
C18_StepsAcrossEpochs ==
    /\ [][Attached("LR") => lrh'.step_num >= lrh.step_num]_vars
    /\ [][(Attached("LR") /\ phase' = "in_epoch" /\ phase # "batch_fit") =>
              /\ lrh'.batch_id = 0
              /\ lrh'.step_num = lrh.step_num]_vars
    /\ [](Attached("LR") =>
            /\ \A N \in 0 .. cfg.max_batches :
                  (/\ phase \in {"epoch_ended", "done"}
                   /\ \A e \in 1 .. Len(batches_log) : batches_log[e] = N)
                    => lrh.step_num = Len(batches_log) * CeilDiv(N, cfg.grad_interval)
            /\ lrh.step_num >= 1 => learning_rate = ScheduledRate(lrh.step_num))

\* Two epochs of three batches with grad_interval 2: two steps each.
C18_Witness ==
    /\ Attached("LR")
    /\ cfg.grad_interval = 2
    /\ cfg.warmup_steps = 2
    /\ phase = "epoch_ended"
    /\ batches_log = << 3, 3 >>
    /\ lrh.step_num = 4
    /\ learning_rate = ScheduledRate(4)

RECURSIVE SumGrads(_)
\* The sum, parameter by parameter, of the gradients of the batches of log.
SumGrads(log) ==
    IF log = << >> THEN ZeroGrad
    ELSE LET rest == SumGrads(Tail(log))
         IN  [k \in ParamNames |-> Head(log).g[k] + rest[k]]

\* The gradient mode is additive from train_begin on, and the buffer holds the sum
\* of the gradients of the batches processed since the gradients were last zeroed
\* (by train_begin or by the previous optimizer step).
AdditiveBuffer ==
    Attached("GA") =>
      /\ phase # "constructed" => grad_req = "add"
      /\ grad = SumGrads(pending)

AccumTrainBegin == Attached("GA") /\ phase = "constructed" /\ phase' = "train_begun"

AccumStep == Attached("GA") /\ nsteps' # nsteps

\* C19 (as stated): after train_begin every gradient is zero and its mode additive,
\* no later event changes the mode, and at every optimizer step the buffer holds
\* the sum of the gradients of exactly the batches processed since the previous
\* step, none of them a batch of a previous epoch.
C19_StepSumsOwnEpoch ==
    /\ []AdditiveBuffer
    /\ [][AccumTrainBegin => (grad' = ZeroGrad /\ grad_req' = "add")]_vars
    /\ [][AccumStep => \A i \in 1 .. Len(pending) : pending[i].epoch = epoch]_vars

\* C19 (amended): after train_begin every gradient is zero and its mode additive,
\* no later event changes the mode, and at every optimizer step the buffer holds
\* the sum of the gradients of exactly the batches processed since the previous
\* step; batches of a previous epoch are among them only when they came after that
\* epoch's last step and carried no valid target token, so that epoch_end did not
\* flush them.
C19_StepSumsSinceLastStep ==
    /\ []AdditiveBuffer
    /\ [][AccumTrainBegin => (grad' = ZeroGrad /\ grad_req' = "add")]_vars
    /\ [][AccumStep =>
              \A i \in 1 .. Len(pending) :
                  pending[i].epoch = epoch \/ pending[i].tokens = 0]_vars
    /\ [][(Attached("GA") /\ phase = "in_epoch" /\ phase' = "epoch_ended"
              /\ nsteps' = nsteps) =>
              \A i \in 1 .. Len(pending) : pending[i].tokens = 0]_vars

\* grad_interval 2: the first epoch is one batch without tokens, which epoch_end
\* does not flush; the step of the second epoch's second batch sees the gradients
\* of three batches.
C19_Witness ==
    /\ Attached("GA")
    /\ cfg.grad_interval = 2
    /\ epoch = 1
    /\ phase = "in_epoch"
    /\ nbatch = 2
    /\ Len(steps_log) = 1
    /\ steps_log[1].grad = [k \in ParamNames |-> 3]
    /\ grad = ZeroGrad
    /\ grad_req = "add"

\* C17 (safety): while the events come in lifecycle order, no attached handler
\* (learning rate, gradient accumulation, parameter update, metric) reads batch_id
\* or loss_denom before an assignment, and the first batch of every epoch sees
\* batch_id = 0 at batch_begin and at batch_end; a batch_begin delivered to the
\* learning-rate handler, or a batch_end or epoch_end delivered to the gradient
\* accumulation handler, before any epoch_begin reads an absent attribute and raises.
FirstBatchBegin == stray = NoEvent /\ phase = "in_epoch" /\ nbatch = 0 /\ phase' = "batch_begun"

FirstBatchEnd == stray = NoEvent /\ phase = "batch_fit" /\ nbatch = 0 /\ phase' = "in_epoch"

ReadsAbsent ==
    /\ stray = NoEvent
    /\ \/ stray' = "batch_begin" /\ Attached("LR")
       \/ stray' \in {"batch_end", "epoch_end"} /\ Attached("GA")

SeesBatchBeginZero ==
    /\ Attached("LR") => lrh.batch_id = 0
    /\ Attached("MH") => mh.batch_id = 0

SeesBatchEndZero ==
    /\ Attached("GA") => gah.batch_id = 0
    /\ Attached("PU") => puh.batch_id = 0

C17_AssignedBeforeRead ==
    /\ [](stray = NoEvent => error # "AttributeError")
    /\ [][FirstBatchBegin => SeesBatchBeginZero]_vars
    /\ [][FirstBatchEnd => SeesBatchEndZero]_vars
    /\ [][ReadsAbsent => (error' = "AttributeError" /\ phase' = "aborted")]_vars

\* the first batch_begin of the second epoch has run with all four handlers attached
C17_Witness ==
    /\ cfg.handlers = {"LR", "GA", "PU", "MH"}
    /\ stray = NoEvent
    /\ error = NoError
    /\ epoch = 1
    /\ phase = "batch_begun"
    /\ nbatch = 0
    /\ lrh.batch_id = 1
    /\ mh.batch_id = 1
    /\ gah.batch_id = 0
    /\ puh.batch_id = 0

\* C21 (invariant): at the end of every epoch_end of ValBleuHandler on a validation
\* set whose instance ids are a permutation of 0 .. n-1, in the first epoch and in
\* later ones, the hypothesis list passed to compute_bleu_fn has exactly n entries,
\* entry i is the translation decoded in this epoch_end for instance i, and
\* estimator.bleu_score is the score compute_bleu_fn returned.
C21_FreshHypotheses ==
    (Attached("VB") /\ phase = "epoch_ended") =>
      LET n == Len(Flatten(cfg.val_data)) IN
      /\ Len(decoded) = n
      /\ Len(hyp_log) = epoch
      /\ Len(hyp_log[epoch]) = n
      /\ \A k \in 1 .. n :
            hyp_log[epoch][decoded[k].id + 1] = Hypothesis(cfg.bleu, decoded[k].out)
      /\ bleu_ret \in cfg.score_vals
      /\ bleu_score = bleu_ret

\* the second epoch_end on two instances out of order, with translations and a
\* score that differ from the first epoch's
C21_Witness ==
    /\ Attached("VB")
    /\ phase = "epoch_ended"
    /\ epoch = 2
    /\ Flatten(cfg.val_data) = << 1, 0 >>
    /\ Len(hyp_log) = 2
    /\ hyp_log[1] # hyp_log[2]
    /\ hyp_log[2][1] = Hypothesis(cfg.bleu, << "b", "c" >>)
    /\ bleu_score = 1

\* C22 (equivalence): in a run in lifecycle order with TransformerLearningRateHandler
\* and MTTransformerParamUpdateHandler attached with the same grad_interval, the two
\* step counters are equal between batches (after every batch_end, epoch_begin and
\* epoch_end), across epochs and whatever the number of batches of an epoch.
C22_StepCountersAgree ==
    (Attached("LR") /\ Attached("PU") /\ stray = NoEvent
       /\ phase \notin {"batch_begun", "batch_fit"}) =>
      lrh.step_num = puh.step_num

\* after the first batch_end of the second epoch, the first epoch having stopped
\* inside an interval of three batches
C22_Witness ==
    /\ Attached("LR") /\ Attached("PU")
    /\ stray = NoEvent
    /\ cfg.grad_interval = 3
    /\ epoch = 1
    /\ phase = "in_epoch"
    /\ nbatch = 1
    /\ lrh.step_num = 2
    /\ puh.step_num = 2

\* C23 (equivalence): with TransformerLearningRateHandler and
\* TransformerGradientAccumulationHandler attached with the same grad_interval and
\* at least one valid token in every batch, at the completion of every epoch_end
\* the number of optimizer steps of the run equals the learning-rate handler's
\* step_num, and every optimizer step is taken under the learning rate computed for
\* its own number: the k-th step when the handler's step_num is k.
EveryBatchHasTokens == Attached("LR") /\ Attached("GA") /\ 0 \notin cfg.token_vals

StepUnderOwnRate ==
    /\ nsteps' = nsteps + 1
    /\ lrh.step_num = nsteps'
    /\ learning_rate = TransformerLR(cfg.lr, cfg.num_units, cfg.warmup_steps, nsteps')

C23_StepsFollowSchedule ==
    /\ []((EveryBatchHasTokens /\ phase = "epoch_ended") => nsteps = lrh.step_num)
    /\ [][(EveryBatchHasTokens /\ nsteps' # nsteps) => StepUnderOwnRate]_vars

\* the end of a second epoch that stopped inside an interval of two batches
C23_Witness ==
    /\ EveryBatchHasTokens
    /\ cfg.grad_interval = 2
    /\ phase = "epoch_ended"
    /\ epoch = 2
    /\ nbatch = 3
    /\ nsteps = 3
    /\ lrh.step_num = 3
    /\ Len(steps_log) = 2
    /\ steps_log[2].by = "epoch_end"

\* C24 (safety): in every run in lifecycle order, with batches that may report 0
\* valid tokens, every call trainer.step(x) made by
\* TransformerGradientAccumulationHandler has x > 0.
C24_StepScalePositive ==
    Attached("GA") =>
      \A k \in 1 .. Len(steps_log) : RatLess(Rat(0, 1), steps_log[k].scale)

\* The two branches of the schedule at step s, with the factor lr / sqrt(num_units)
\* (squared, as the learning rate is held).
WarmupBranch(s) ==
    RatMul(Rat(cfg.lr * cfg.lr, cfg.num_units),
           Rat(s * s, cfg.warmup_steps * cfg.warmup_steps * cfg.warmup_steps))

DecayBranch(s) == RatMul(Rat(cfg.lr * cfg.lr, cfg.num_units), Rat(1, s))

\* A batch_begin of TransformerLearningRateHandler that sets the rate of the next step.
NextRateSet == Attached("LR") /\ lrh.step_num >= 1 /\ lrh'.step_num = lrh.step_num + 1

\* C25 (numerical): the learning rate set at step s is the warm-up branch
\* s * warmup_steps^-1.5 exactly when s <= warmup_steps and the decay branch
\* 1/sqrt(s) exactly when s >= warmup_steps; from one step to the next the rate
\* strictly grows while s < warmup_steps and strictly falls from warmup_steps on,
\* and no step has a higher rate than step warmup_steps.
C25_WarmupThenDecay ==
    /\ []((Attached("LR") /\ lrh.step_num >= 1) =>
            /\ (learning_rate = WarmupBranch(lrh.step_num))
                  <=> (lrh.step_num <= cfg.warmup_steps)
            /\ (learning_rate = DecayBranch(lrh.step_num))
                  <=> (lrh.step_num >= cfg.warmup_steps)
            /\ RatLeq(learning_rate, DecayBranch(cfg.warmup_steps)))
    /\ [][(NextRateSet /\ lrh.step_num < cfg.warmup_steps) =>
            RatLess(learning_rate, learning_rate')]_vars
    /\ [][(NextRateSet /\ lrh.step_num >= cfg.warmup_steps) =>
            RatLess(learning_rate', learning_rate)]_vars

\* the first step after the peak of a schedule with two warm-up steps
C25_Witness ==
    /\ Attached("LR")
    /\ cfg.warmup_steps = 2
    /\ lrh.step_num = 3
    /\ phase = "batch_begun"
    /\ learning_rate = << 1, 1536 >>

\* C26 (frame): fit_batch leaves estimator.eval_hiddens as it is and evaluate_batch
\* leaves estimator.hiddens as it is; in every interleaving of the two, each slot
\* holds what the calls of its own kind alone would have put there: None until the
\* first call of its kind, then that kind's carried state.
C26_StreamsIndependent ==
    /\ [](hiddens = fit_only /\ eval_hiddens = eval_only)
    /\ []((hiddens = None) <=> (lm_log.fits = 0))
    /\ []((eval_hiddens = None) <=> (lm_log.evals = 0))
    /\ [][lm_log'.fits # lm_log.fits => eval_hiddens' = eval_hiddens]_vars
    /\ [][lm_log'.evals # lm_log.evals => hiddens' = hiddens]_vars

\* fit, evaluate, fit on batches whose two axes differ: the evaluation state has
\* the batch dimension of the evaluated batch, the training state its own
C26_Witness ==
    /\ cfg.num_devices = 1
    /\ cfg.batch_axis = 0
    /\ lm_log.fits = 2
    /\ lm_log.evals = 1
    /\ hiddens = << [val |-> 1, size |-> 3, hist |-> {2}] >>
    /\ eval_hiddens = << [val |-> 2, size |-> 1, hist |-> {}] >>

====
